---- MODULE Spec2Model ----
(***************************************************************************)
(* QueueCTL (src/queuectl.py): a SQLite-backed job queue.  Operator        *)
(* commands (enqueue, config set, worker stop, dlq retry) and worker       *)
(* processes (worker_main / try_process_one) share the tables jobs, dlq,   *)
(* config and workers.  Every process opens its own connection; the        *)
(* sqlite3 module opens a transaction only in front of INSERT / UPDATE /   *)
(* DELETE, so a SELECT that precedes a write inside "with conn:" is a      *)
(* step of its own, and statements executed without a commit before        *)
(* conn.close() are rolled back.  One action below is one such atomic      *)
(* database step together with the Python code around it.                  *)
(*                                                                         *)
(* Columns that no guard or computation reads (jobs.updated_at,            *)
(* dlq.failed_at, workers.pid / started_at / last_heartbeat) and the       *)
(* config keys poll_interval_sec / timeout_seconds (they only size a sleep *)
(* and the command's time limit; the command's result is a free choice     *)
(* here) are not carried.                                                  *)
(***************************************************************************)
EXTENDS Integers, FiniteSets, Sequences, TLC

\* ------------------------------------------------------------------ bounds
\* The clock runs from 0 to MaxTime ticks.
MaxTime == 2
\* Clock ticks per second: timestamps carry a sub-second part.
TicksPerSecond == 2
\* A descriptor's run_at lies 1 .. MaxRunAhead ticks after the enqueue.
MaxRunAhead == 1

\* ------------------------------------------------------- small input sets
Ids == {"j1", "j2"}
\* The command a descriptor with the id carries.
Commands == [j1 |-> {"exit 1"}, j2 |-> {"sleep 99"}]
\* Worker processes, the ids new_worker_id can draw, dlq-retry invocations.
Procs == {"p1", "p2"}
\* The worker id each process draws (distinct draws of random.randint).
WorkerIds == [p1 |-> "w-10000", p2 |-> "w-10001"]
Replayers == {"r1", "r2"}
\* max_retries values a descriptor carries when it has the key.
PayloadMaxRetries == {1, 2}
\* Values "config set" is given for a key (stored as text).
ConfigValues == {"-1", "2"}
ConfigKeys == {"max_retries", "backoff_base"}

NULL == "NULL"

VARIABLES
    clock,      \* wall clock, in ticks
    jobs,       \* table jobs: id -> row
    dlq,        \* table dlq: id -> row
    config,     \* table config: key -> value (text)
    workers,    \* table workers: id -> desired_state
    pc,         \* per worker process: position in worker_main
    wid,        \* per worker process: its worker id
    job,        \* per worker process: j_id selected / row read after the claim
    rpc,        \* per dlq-retry invocation: position in dlq_retry
    row,        \* per dlq-retry invocation: the dlq row it read
    stdout,     \* what the last enqueue printed
    beaten,     \* history: since the worker's SELECT, another claim of its row succeeded
    runs,       \* history: failed executions of the id since its row was written
    replayed    \* history: the ids a dlq retry has written

vars == <<clock, jobs, dlq, config, workers, pc, wid, job, rpc, row, stdout,
          beaten, runs, replayed>>
stores == <<jobs, dlq, config, workers>>
hist == <<beaten, runs, replayed>>

\* ---------------------------------------------------------------- helpers
\* Character codes of "Z" and "." (the character after the seconds).
CharZ == 90
CharDot == 46

\* datetime.isoformat() prints the fraction only when it is not zero, so the
\* text is "<seconds>Z" or "<seconds>.<fraction>Z".  A text is modelled by
\* <<seconds, code of the character after the seconds, fraction>>.
Iso(t) ==
    LET f == t % TicksPerSecond
    IN  <<t \div TicksPerSecond, IF f = 0 THEN CharZ ELSE CharDot, f>>

utcnow_iso == Iso(clock)

\* The instant a timestamp text denotes, in ticks.
TimeOf(text) == text[1] * TicksPerSecond + text[3]

\* SQLite compares TEXT columns character by character.
TextLess(a, b) ==
    \/ a[1] < b[1]
    \/ a[1] = b[1] /\ a[2] < b[2]
    \/ a[1] = b[1] /\ a[2] = b[2] /\ a[3] < b[3]
TextLeq(a, b) == a = b \/ TextLess(a, b)

\* int() of a stored config text.
int(s) == CASE s = "-1" -> -1
            [] s = "2" -> 2
            [] s = "3" -> 3

RECURSIVE Pow(_, _)
Pow(b, e) == IF e = 0 THEN 1 ELSE b * Pow(b, e - 1)

get_config(key) == config[key]

new_worker_id(p) == WorkerIds[p]

Empty == [x \in {} |-> NULL]
Remove(f, k) == [x \in DOMAIN f \ {k} |-> f[x]]
NoJob == [id |-> NULL, command |-> NULL, attempts |-> 0, max_retries |-> 0]
NoRow == [id |-> NULL, command |-> NULL, attempts |-> 0, max_retries |-> 0,
          last_error |-> NULL]

Init ==
    /\ clock = 0
    /\ jobs = Empty
    /\ dlq = Empty
    /\ config = [max_retries |-> "3", backoff_base |-> "2"]
    /\ workers = Empty
    /\ pc = [p \in Procs |-> "init"]
    /\ wid = [p \in Procs |-> NULL]
    /\ job = [p \in Procs |-> NoJob]
    /\ rpc = [r \in Replayers |-> "start"]
    /\ row = [r \in Replayers |-> NoRow]
    /\ stdout = <<"", NULL>>
    /\ beaten = [p \in Procs |-> FALSE]
    /\ runs = [j \in Ids |-> 0]
    /\ replayed = {}

\* ------------------------------------------------------ operator commands
\* The descriptors enqueue is given: id and command, optionally max_retries
\* and run_at (a timestamp text, here later than the present; a descriptor
\* without run_at is scheduled at the present).
Payloads ==
    LET runAts == {Iso(t) : t \in clock + 1 .. clock + MaxRunAhead}
        base == [id : Ids, command : UNION {Commands[j] : j \in Ids}]
        withM == [id : Ids, command : UNION {Commands[j] : j \in Ids},
                  max_retries : PayloadMaxRetries]
        withR == [id : Ids, command : UNION {Commands[j] : j \in Ids},
                  run_at : runAts]
        withMR == [id : Ids, command : UNION {Commands[j] : j \in Ids},
                   max_retries : PayloadMaxRetries, run_at : runAts]
    IN  {d \in base \cup withM \cup withR \cup withMR :
            d.command \in Commands[d.id]}

\* payload.get("max_retries", 3)
DefaultMaxRetries == 3
PayloadMaxRetriesOrDefault(payload) ==
    IF "max_retries" \in DOMAIN payload THEN payload.max_retries
    ELSE DefaultMaxRetries

\* The record enqueue_job builds from a descriptor.
EnqueueRecord(payload) ==
    LET now == utcnow_iso
        run_at == IF "run_at" \in DOMAIN payload THEN payload.run_at ELSE now
    IN  [command |-> payload.command, state |-> "pending", attempts |-> 0,
         max_retries |-> PayloadMaxRetriesOrDefault(payload),
         created_at |-> now, next_run_at |-> run_at,
         last_error |-> NULL, worker_id |-> NULL]

\* Faulty variant: INSERT OR REPLACE, which never raises.
InsertRaisesIntegrityError_replace(id) == FALSE
\* INSERT INTO jobs: a row with the id makes it raise IntegrityError.
InsertRaisesIntegrityError(id) == id \in DOMAIN jobs

enqueue_job(payload) ==
    /\ IF InsertRaisesIntegrityError(payload.id)
       THEN /\ stdout' = <<"already exists", payload.id>>
            /\ UNCHANGED jobs
       ELSE /\ jobs' = (payload.id :> EnqueueRecord(payload)) @@ jobs
            /\ stdout' = <<"Enqueued", payload.id>>
    /\ UNCHANGED <<clock, dlq, config, workers, pc, wid, job, rpc, row>>
    /\ UNCHANGED hist

set_config(key, value) ==
    /\ config' = [config EXCEPT ![key] = value]
    /\ UNCHANGED <<clock, jobs, dlq, workers, pc, wid, job, rpc, row, stdout>>
    /\ UNCHANGED hist

worker_stop ==
    /\ workers' = [w \in DOMAIN workers |->
                      IF workers[w] = "running" THEN "stopping" ELSE workers[w]]
    /\ UNCHANGED <<clock, jobs, dlq, config, pc, wid, job, rpc, row, stdout>>
    /\ UNCHANGED hist

\* Faulty variant: the return after "not found" is missing.
AfterNoRow_fallthrough == "write"
\* Where dlq_retry stands after it printed "not found": it has returned.
AfterNoRow == "not found"

\* dlq_retry, first statement: SELECT * FROM dlq WHERE id=? (no transaction
\* is open yet); without a row it prints "not found" and returns.
dlq_retry_select(r, job_id) ==
    /\ rpc[r] = "start"
    /\ IF job_id \in DOMAIN dlq
       THEN /\ row' = [row EXCEPT ![r] =
                         [id |-> job_id, command |-> dlq[job_id].command,
                          attempts |-> dlq[job_id].attempts,
                          max_retries |-> dlq[job_id].max_retries,
                          last_error |-> dlq[job_id].last_error]]
            /\ rpc' = [rpc EXCEPT ![r] = "write"]
       ELSE /\ row' = [row EXCEPT ![r] = [NoRow EXCEPT !.id = job_id]]
            /\ rpc' = [rpc EXCEPT ![r] = AfterNoRow]
    /\ UNCHANGED <<clock, jobs, dlq, config, workers, pc, wid, job, stdout>>
    /\ UNCHANGED hist

\* The row dlq_retry writes with INSERT OR REPLACE INTO jobs.
ReplayRecord(r) ==
    LET now == utcnow_iso
    IN  [command |-> row[r].command, state |-> "pending", attempts |-> 0,
         max_retries |-> row[r].max_retries, created_at |-> now,
         next_run_at |-> now, last_error |-> NULL, worker_id |-> NULL]

\* dlq_retry, the transaction: INSERT OR REPLACE INTO jobs, DELETE FROM dlq;
\* then it prints "Re-enqueued".
dlq_retry_write(r) ==
    /\ rpc[r] = "write"
    /\ jobs' = (row[r].id :> ReplayRecord(r)) @@ jobs
    /\ dlq' = Remove(dlq, row[r].id)
    /\ rpc' = [rpc EXCEPT ![r] = "Re-enqueued"]
    /\ runs' = [runs EXCEPT ![row[r].id] = 0]
    /\ replayed' = replayed \cup {row[r].id}
    /\ UNCHANGED <<clock, config, workers, pc, wid, job, row, stdout, beaten>>

\* ---------------------------------------------------------- worker process
\* worker_main up to the loop: INSERT OR REPLACE INTO workers, committed.
worker_main_register(p) ==
    /\ pc[p] = "init"
    /\ LET w == new_worker_id(p)
       IN  /\ wid' = [wid EXCEPT ![p] = w]
           /\ workers' = (w :> "running") @@ workers
    /\ pc' = [pc EXCEPT ![p] = "loop"]
    /\ UNCHANGED <<clock, jobs, dlq, config, job, rpc, row, stdout>>
    /\ UNCHANGED hist

\* Faulty variant: the stop request is also looked at while a command runs.
LoopPoints_midrun == {"loop", "run"}
\* Where worker_main reads desired_state: at the top of the loop only.
LoopPoints == {"loop"}

\* Top of the loop: read desired_state.  The DELETE of the stopping branch and
\* the heartbeat UPDATE are executed on a connection that is closed without a
\* commit, which rolls them back: the table keeps its rows.
worker_main_loop(p) ==
    /\ pc[p] \in LoopPoints
    /\ LET desired == IF wid[p] \in DOMAIN workers THEN workers[wid[p]] ELSE NULL
       IN  pc' = [pc EXCEPT ![p] =
                    IF desired = NULL \/ desired = "stopping" THEN "stopped"
                    ELSE "select"]
    /\ UNCHANGED <<clock, jobs, dlq, config, workers, wid, job, rpc, row, stdout>>
    /\ UNCHANGED hist

\* WHERE state='pending' AND next_run_at<=?
Due(j, now) == jobs[j].state = "pending" /\ TextLeq(jobs[j].next_run_at, now)

\* ORDER BY created_at LIMIT 1: a due row no other due row sorts before.
SelectRows(now) ==
    {j \in DOMAIN jobs :
        /\ Due(j, now)
        /\ \A k \in DOMAIN jobs :
              Due(k, now) => ~TextLess(jobs[k].created_at, jobs[j].created_at)}

\* try_process_one, the SELECT; without a row it returns False and the loop
\* sleeps and starts over.
try_process_one_select(p) ==
    /\ pc[p] = "select"
    /\ LET now == utcnow_iso
       IN  IF SelectRows(now) = {}
           THEN /\ pc' = [pc EXCEPT ![p] = "loop"]
                /\ UNCHANGED job
           ELSE \E j \in SelectRows(now) :
                   /\ job' = [job EXCEPT ![p] = [NoJob EXCEPT !.id = j]]
                   /\ pc' = [pc EXCEPT ![p] = "update"]
    /\ UNCHANGED <<clock, jobs, dlq, config, workers, wid, rpc, row, stdout,
                   beaten, runs, replayed>>

\* Faulty variant: the UPDATE asks for the wrong state.
UpdateMatches_processing(j) == j \in DOMAIN jobs /\ jobs[j].state = "processing"

\* UPDATE jobs SET state='processing' ... WHERE id=? AND state='pending'
UpdateMatches(j) == j \in DOMAIN jobs /\ jobs[j].state = "pending"

\* try_process_one, the UPDATE and the SELECT * that follows it in the same
\* transaction; rowcount 0 returns False.
try_process_one_update(p) ==
    /\ pc[p] = "update"
    /\ LET j == job[p].id
       IN  IF UpdateMatches(j)
           THEN /\ jobs' = [jobs EXCEPT ![j].state = "processing",
                                        ![j].worker_id = wid[p]]
                /\ job' = [job EXCEPT ![p] =
                             [id |-> j, command |-> jobs[j].command,
                              attempts |-> jobs[j].attempts,
                              max_retries |-> jobs[j].max_retries]]
                /\ pc' = [pc EXCEPT ![p] = "run"]
                /\ beaten' = [q \in Procs |->
                                 q # p /\ (beaten[q] \/ (pc[q] = "update" /\ job[q].id = j))]
           ELSE /\ job' = [job EXCEPT ![p] = NoJob]
                /\ pc' = [pc EXCEPT ![p] = "loop"]
                /\ beaten' = [beaten EXCEPT ![p] = FALSE]
                /\ UNCHANGED jobs
    /\ UNCHANGED <<clock, dlq, config, workers, wid, rpc, row, stdout,
                   runs, replayed>>

\* Faulty variant: the exponent is the attempts count before the increment.
Delay_old_attempts(base, attempts) == Pow(base, attempts - 1)
\* delay = base ** attempts, in seconds
Delay(base, attempts) == Pow(base, attempts)

\* Faulty variant: one more retry than max_retries.
RetryAllowed_inclusive(attempts, max_retries) == attempts <= max_retries
\* if attempts < max_retries: reschedule, else dead-letter
RetryAllowed(attempts, max_retries) == attempts < max_retries

\* next_run_iso: the present plus the delay, printed as a timestamp.
NextRunIso(delay) == Iso(clock + delay * TicksPerSecond)

\* The failure text run_command returns.
Output == "Exit code 1"

\* try_process_one after the claim: run_command, then the outcome written in
\* one transaction (UPDATE ... WHERE id=?, and INSERT OR REPLACE INTO dlq when
\* the retries are used up).
try_process_one_outcome(p, success) ==
    /\ pc[p] = "run"
    /\ LET j == job[p].id
           attempts == job[p].attempts + 1
           max_retries == job[p].max_retries
           base == int(get_config("backoff_base"))
       IN  IF success
           THEN /\ jobs' = [jobs EXCEPT ![j].state = "completed",
                                        ![j].last_error = NULL]
                /\ UNCHANGED <<dlq, runs>>
           ELSE IF RetryAllowed(attempts, max_retries)
           THEN /\ jobs' = [jobs EXCEPT ![j].state = "pending",
                                        ![j].attempts = attempts,
                                        ![j].next_run_at =
                                            NextRunIso(Delay(base, attempts)),
                                        ![j].last_error = Output]
                /\ runs' = [runs EXCEPT ![j] = @ + 1]
                /\ UNCHANGED dlq
           ELSE /\ dlq' = (j :> [command |-> job[p].command,
                                 attempts |-> attempts,
                                 max_retries |-> max_retries,
                                 last_error |-> Output]) @@ dlq
                /\ jobs' = [jobs EXCEPT ![j].state = "dead",
                                        ![j].attempts = attempts,
                                        ![j].last_error = Output]
                /\ runs' = [runs EXCEPT ![j] = @ + 1]
    /\ job' = [job EXCEPT ![p] = NoJob]
    /\ pc' = [pc EXCEPT ![p] = "loop"]
    /\ UNCHANGED <<clock, config, workers, wid, rpc, row, stdout,
                   beaten, replayed>>

\* ------------------------------------------------------------------- time
Tick ==
    /\ clock < MaxTime
    /\ clock' = clock + 1
    /\ UNCHANGED <<jobs, dlq, config, workers, pc, wid, job, rpc, row, stdout>>
    /\ UNCHANGED hist

\* ----------------------------------------------------------- the system
\* Enqueues of descriptors naming the ids I.
Enqueue(I) == \E payload \in Payloads : payload.id \in I /\ enqueue_job(payload)

\* "config set" of the keys K.
ConfigSet(K) == \E key \in K, value \in ConfigValues : set_config(key, value)

\* The dlq-retry invocations R, naming the ids I.
DlqRetry(I, R) ==
    \/ \E r \in R, job_id \in I : dlq_retry_select(r, job_id)
    \/ \E r \in R : dlq_retry_write(r)

\* The worker processes P.
Worker(P) ==
    \/ \E p \in P : worker_main_register(p)
    \/ \E p \in P : worker_main_loop(p)
    \/ \E p \in P : try_process_one_select(p)
    \/ \E p \in P : try_process_one_update(p)
    \/ \E p \in P, success \in BOOLEAN : try_process_one_outcome(p, success)

\* Every command on every id, every worker, every dlq retry.
Next ==
    \/ Tick
    \/ Enqueue(Ids)
    \/ ConfigSet(ConfigKeys)
    \/ worker_stop
    \/ DlqRetry(Ids, Replayers)
    \/ Worker(Procs)
Spec == Init /\ [][Next]_vars

\* One job under two workers and two concurrent dlq retries, with the backoff
\* base changed at run time.
NextRace ==
    \/ Tick
    \/ Enqueue({"j1"})
    \/ ConfigSet({"backoff_base"})
    \/ DlqRetry({"j1"}, Replayers)
    \/ Worker(Procs)
SpecRace == Init /\ [][NextRace]_vars

\* One job under two workers and two concurrent dlq retries, with worker stop.
NextStop ==
    \/ Tick
    \/ Enqueue({"j1"})
    \/ worker_stop
    \/ DlqRetry({"j1"}, Replayers)
    \/ Worker(Procs)
SpecStop == Init /\ [][NextStop]_vars

\* Two jobs under one worker and one dlq retry.
NextFrame ==
    \/ Tick
    \/ Enqueue(Ids)
    \/ DlqRetry(Ids, {"r1"})
    \/ Worker({"p1"})
SpecFrame == Init /\ [][NextFrame]_vars

\* One job under one worker and one dlq retry, with every config key changed
\* at run time and worker stop.
NextConfig ==
    \/ Tick
    \/ Enqueue({"j1"})
    \/ ConfigSet(ConfigKeys)
    \/ worker_stop
    \/ DlqRetry({"j1"}, {"r1"})
    \/ Worker({"p1"})
SpecConfig == Init /\ [][NextConfig]_vars

\* The steps of the worker process p.
WorkerSteps(p) ==
    \/ worker_main_register(p)
    \/ worker_main_loop(p)
    \/ try_process_one_select(p)
    \/ try_process_one_update(p)
    \/ \E success \in BOOLEAN : try_process_one_outcome(p, success)

\* The end of the command a worker process runs (subprocess.run returns, by
\* completion or by its timeout).
CommandEnds(p) == \E success \in BOOLEAN : try_process_one_outcome(p, success)

\* One job under two workers with the backoff base changed at run time; no
\* worker stop and no dlq retry.  Time advances, worker p1 keeps running its
\* loop, and the commands run by either worker end.
NextProgress ==
    \/ Tick
    \/ Enqueue({"j1"})
    \/ ConfigSet({"backoff_base"})
    \/ Worker(Procs)
SpecProgress ==
    /\ Init
    /\ [][NextProgress]_vars
    /\ WF_vars(Tick)
    /\ WF_vars(WorkerSteps("p1"))
    /\ \A p \in Procs : WF_vars(CommandEnds(p))

\* ================================================================= claims
\* The worker processes that hold a claim of job j whose outcome they have not
\* written yet.
Executing(j) == {p \in Procs : pc[p] = "run" /\ job[p].id = j}

\* C1 (claim exclusivity): of the claim attempts whose SELECT returned the same
\* pending, due job, exactly one moves it to processing: an attempt does not
\* succeed once another attempt has claimed the row it selected, and an
\* attempt that returns without a job was beaten by another one.
ClaimExclusivity ==
    [][\A p \in Procs :
          pc[p] = "update" =>
              /\ pc'[p] = "run" => ~beaten[p]
              /\ pc'[p] = "loop" => beaten[p]]_vars

\* C2 (no double-execution): in every reachable state at most one worker is
\* between its successful claim of a job id and its outcome write for it.
NoDoubleExecution == \A j \in Ids : Cardinality(Executing(j)) <= 1

\* C3 (scheduling respect): a job never goes from pending to processing at a
\* time earlier than the next_run_at it holds at that moment.
SchedulingRespect ==
    [][\A j \in DOMAIN jobs :
          (jobs[j].state = "pending" /\ jobs'[j].state = "processing")
              => TimeOf(jobs[j].next_run_at) <= clock]_vars

\* C4 (backoff correctness): when a claimed job's execution fails and the new
\* attempts count k is below the job's max_retries, the outcome write leaves
\* the job pending with attempts = k, last_error set, and next_run_at at the
\* instant of the decision plus backoff_base^k seconds, backoff_base being the
\* config value at that decision.
BackoffCorrectness ==
    [][\A p \in Procs :
          LET j == job[p].id
              k == job[p].attempts + 1
          IN  (try_process_one_outcome(p, FALSE) /\ k < job[p].max_retries)
                  => /\ jobs'[j].state = "pending"
                     /\ jobs'[j].attempts = k
                     /\ jobs'[j].last_error # NULL
                     /\ TimeOf(jobs'[j].next_run_at) =
                            clock + TicksPerSecond
                                      * Pow(int(config["backoff_base"]), k)]_vars

\* A job rescheduled after its second failure, under a backoff base that was
\* changed at run time.
BackoffWitness ==
    \E j \in DOMAIN jobs :
        /\ jobs[j].state = "pending"
        /\ jobs[j].attempts = 2
        /\ jobs[j].last_error # NULL
        /\ config["backoff_base"] # "2"

\* C5 (dead-letter exactness): for a job that has not been replayed, with
\* max_retries = m >= 1, the failed executions never exceed m; the job is dead
\* exactly when it has failed m times, and then it carries attempts = m and
\* there is one dead-letter record under its id with attempts = m and the
\* job's command and max_retries; a job that is not dead has no dead-letter
\* record.  Since the failure count never decreases, a job dead after m
\* failures is never again pending or processing unless it is replayed.
DeadLetterExactness ==
    \A j \in DOMAIN jobs :
        LET m == jobs[j].max_retries
        IN  (j \notin replayed /\ m >= 1)
                => /\ runs[j] <= m
                   /\ jobs[j].attempts = runs[j]
                   /\ jobs[j].state = "dead" <=> runs[j] = m
                   /\ j \in DOMAIN dlq <=> jobs[j].state = "dead"
                   /\ jobs[j].state = "dead"
                          => /\ jobs[j].attempts = m
                             /\ dlq[j].attempts = m
                             /\ dlq[j].command = jobs[j].command
                             /\ dlq[j].max_retries = m

\* A job enqueued with max_retries = 2 is dead after two failed executions
\* and a worker polls again without selecting it.
DeadLetterWitness ==
    \E j \in DOMAIN jobs :
        /\ j \notin replayed
        /\ jobs[j].max_retries = 2
        /\ jobs[j].state = "dead"
        /\ runs[j] = 2
        /\ \E p \in Procs : pc[p] = "loop" /\ job[p] = NoJob

\* C6 (replay resets budget): the write of a replay leaves a job row under the
\* replayed id with the dead-letter record's command and max_retries, state
\* pending, attempts 0, next_run_at at the instant of the write and no
\* worker_id, and no dead-letter record under that id; and a replayed job is
\* dead-lettered again only by the failure that brings its failed executions
\* since the replay to max_retries.
ReplayResetsBudget ==
    [][/\ \A r \in Replayers :
              dlq_retry_write(r)
                  => LET j == row[r].id
                     IN  /\ j \in DOMAIN jobs'
                         /\ jobs'[j].command = row[r].command
                         /\ jobs'[j].max_retries = row[r].max_retries
                         /\ jobs'[j].state = "pending"
                         /\ jobs'[j].attempts = 0
                         /\ TimeOf(jobs'[j].next_run_at) = clock
                         /\ jobs'[j].worker_id = NULL
                         /\ j \notin DOMAIN dlq'
       /\ \A j \in DOMAIN jobs :
              (j \in replayed /\ jobs[j].state # "dead" /\ jobs'[j].state = "dead")
                  => runs'[j] = jobs'[j].max_retries]_vars

\* C7 (duplicate rejection): an enqueue whose descriptor carries an id already
\* in the jobs table, whatever the state of that job, leaves the jobs table,
\* the dead-letter table, the config and the workers table unchanged and
\* reports that the job already exists.
DuplicateRejection ==
    [][\A payload \in Payloads :
          (payload.id \in DOMAIN jobs /\ enqueue_job(payload))
              => /\ UNCHANGED stores
                 /\ stdout' = <<"already exists", payload.id>>]_vars

\* A duplicate was reported for a job that is dead and has a dead-letter record.
DuplicateWitness ==
    \E j \in DOMAIN jobs :
        /\ stdout = <<"already exists", j>>
        /\ jobs[j].state = "dead"
        /\ j \in DOMAIN dlq

\* C8 (replay of an unknown id): a replay invocation whose id has no row in
\* the dead-letter table changes none of the jobs table, the dead-letter
\* table, the config and the workers table, and ends reporting not-found
\* without ever writing.
ReplayUnknownId ==
    [][/\ \A r \in Replayers, job_id \in Ids :
              (job_id \notin DOMAIN dlq /\ dlq_retry_select(r, job_id))
                  => /\ UNCHANGED stores
                     /\ rpc'[r] = "not found"
       /\ \A r \in Replayers :
              rpc[r] = "not found" => rpc'[r] = "not found" /\ ~dlq_retry_write(r)]_vars

\* A replay reported not-found for the id of a job that exists and is not dead.
ReplayUnknownWitness ==
    \E r \in Replayers :
        /\ rpc[r] = "not found"
        /\ row[r].id \in DOMAIN jobs
        /\ row[r].id \notin DOMAIN dlq

\* C9 (default retry limit from config): a job enqueued by a descriptor without
\* max_retries gets the max_retries the config holds at the enqueue.
DefaultRetryLimitFromConfig ==
    [][\A payload \in Payloads :
          ( /\ "max_retries" \notin DOMAIN payload
            /\ payload.id \notin DOMAIN jobs
            /\ enqueue_job(payload) )
              => jobs'[payload.id].max_retries = int(config["max_retries"])]_vars

\* C10 (graceful stop): a worker that is between iterations of its loop, or
\* has left the loop through the stopping branch, has no job in state
\* processing stamped with its worker id.
GracefulStop ==
    \A p \in Procs :
        pc[p] \in {"loop", "stopped"}
            => \A j \in DOMAIN jobs :
                   ~(jobs[j].state = "processing" /\ jobs[j].worker_id = wid[p])

\* A worker asked to stop while it executed a job has written the outcome and
\* then left the loop.
GracefulStopWitness ==
    \E p \in Procs, j \in DOMAIN jobs :
        /\ pc[p] = "stopped"
        /\ workers[wid[p]] = "stopping"
        /\ jobs[j].worker_id = wid[p]
        /\ jobs[j].state \in {"completed", "pending", "dead"}

\* C11 (stop takes effect): a worker that has left its loop through the
\* stopping branch has no row under its id in the workers table.
StopTakesEffect ==
    \A p \in Procs : pc[p] = "stopped" => wid[p] \notin DOMAIN workers

\* C12 (job lifecycle): apart from the replay of a dead job (dead to pending),
\* every change of a job's state is pending to processing, processing to
\* completed, processing to pending or processing to dead; so a completed job
\* keeps its state and no job goes from pending to completed or dead.
JobLifecycle ==
    [][\A j \in DOMAIN jobs :
          jobs'[j].state # jobs[j].state
              => \/ <<jobs[j].state, jobs'[j].state>>
                        \in { <<"pending", "processing">>,
                              <<"processing", "completed">>,
                              <<"processing", "pending">>,
                              <<"processing", "dead">> }
                 \/ /\ jobs[j].state = "dead"
                    /\ jobs'[j].state = "pending"
                    /\ \E r \in Replayers : row[r].id = j /\ dlq_retry_write(r)]_vars

\* C13 (dead-letter atomicity): in every reachable state there is a dead-letter
\* record under an id exactly when the job under that id is dead.
DeadLetterAtomicity ==
    \A j \in Ids :
        j \in DOMAIN dlq <=> (j \in DOMAIN jobs /\ jobs[j].state = "dead")

\* C14 (retry bound): for every job with max_retries >= 1, in every reachable
\* state attempts <= max_retries, the job is dead exactly when attempts =
\* max_retries, and a pending or processing job has attempts < max_retries.
RetryBound ==
    \A j \in DOMAIN jobs :
        jobs[j].max_retries >= 1
            => /\ jobs[j].attempts <= jobs[j].max_retries
               /\ jobs[j].state = "dead" <=> jobs[j].attempts = jobs[j].max_retries
               /\ jobs[j].state \in {"pending", "processing"}
                      => jobs[j].attempts < jobs[j].max_retries

\* C15 (attempts accounting): a step that is not the write of a replay of the
\* job never decreases its attempts: the outcome write of a failed execution
\* of the job increases the attempts of its row by exactly 1, and every other
\* step (a claim, the outcome write of a successful execution, any step on
\* another job) leaves them unchanged.
AttemptsAccounting ==
    [][\A j \in DOMAIN jobs :
          IF \E r \in Replayers : row[r].id = j /\ dlq_retry_write(r)
          THEN TRUE
          ELSE IF \E p \in Procs : job[p].id = j /\ try_process_one_outcome(p, FALSE)
          THEN jobs'[j].attempts = jobs[j].attempts + 1
          ELSE jobs'[j].attempts = jobs[j].attempts]_vars

\* C16 (monotone scheduling): every value written over a job's next_run_at (by
\* a backoff reschedule or by a replay) is at or after the instant of the
\* value it replaces, whatever backoff_base the config holds.
MonotoneScheduling ==
    [][\A j \in DOMAIN jobs :
          jobs'[j].next_run_at # jobs[j].next_run_at
              => TimeOf(jobs'[j].next_run_at) >= TimeOf(jobs[j].next_run_at)]_vars

\* A job that is pending and whose next_run_at has been reached.
PendingDue(j) == jobs[j].state = "pending" /\ TimeOf(jobs[j].next_run_at) <= clock

\* C17 (oldest-first selection): the job a claim attempt selects is pending and
\* due at the selection and no other pending due job was created earlier; an
\* attempt selects nothing only when no job is pending and due; and an attempt
\* whose conditional update finds no row lost the selected job to the claim
\* of another worker.
OldestFirstSelection ==
    [][\A p \in Procs :
          /\ (pc[p] = "select" /\ pc'[p] = "update")
                 => LET j == job'[p].id
                    IN  /\ PendingDue(j)
                        /\ \A k \in DOMAIN jobs :
                               PendingDue(k)
                                   => TimeOf(jobs[k].created_at)
                                          >= TimeOf(jobs[j].created_at)
          /\ (pc[p] = "select" /\ pc'[p] = "loop")
                 => ~ \E k \in DOMAIN jobs : PendingDue(k)
          /\ (pc[p] = "update" /\ pc'[p] = "loop") => beaten[p]]_vars

\* C18 (worker ownership frame): the steps of one claim-and-execute cycle of a
\* worker change at most the job row the cycle claimed, and the dead-letter
\* record of that id when the cycle dead-letters; every other job row and
\* dead-letter record, the config and the workers table stay as they are, and
\* a cycle that claims nothing changes nothing.  The outcome write is applied
\* only to a job that is in state processing with the writer's worker id.
WorkerOwnershipFrame ==
    [][\A p \in Procs :
          LET j == job[p].id
              OthersKept ==
                  /\ UNCHANGED <<config, workers>>
                  /\ DOMAIN jobs' = DOMAIN jobs
                  /\ \A k \in DOMAIN jobs \ {j} : jobs'[k] = jobs[k]
                  /\ DOMAIN dlq' \ {j} = DOMAIN dlq \ {j}
                  /\ \A k \in DOMAIN dlq \ {j} : dlq'[k] = dlq[k]
          IN  /\ try_process_one_select(p) => UNCHANGED stores
              /\ try_process_one_update(p)
                     => /\ OthersKept
                        /\ UNCHANGED dlq
                        /\ pc'[p] = "loop" => UNCHANGED jobs
              /\ \A success \in BOOLEAN :
                     try_process_one_outcome(p, success)
                         => /\ OthersKept
                            /\ dlq' # dlq => jobs'[j].state = "dead"
                            /\ jobs[j].state = "processing"
                            /\ jobs[j].worker_id = wid[p]]_vars

\* C19 (replay touches only dead jobs): the write of a replay never overwrites
\* a job row that is not in state dead at that moment.
ReplayTouchesOnlyDead ==
    [][\A r \in Replayers :
          (dlq_retry_write(r) /\ row[r].id \in DOMAIN jobs)
              => jobs[row[r].id].state = "dead"]_vars

====
